---- MODULE Spec2Model ----
(***************************************************************************)
(* Claude Forge: the multi-file response parser and zip export             *)
(* (lib/zip-utils.ts), the stream reader and page state of the home page   *)
(* (app/page.tsx) and the save route (app/api/save/route.ts).              *)
(*                                                                         *)
(* Text is a sequence of atoms.  An atom is a run of characters that the   *)
(* regular expressions of the code never look inside: the code fence, the  *)
(* newline, a run of word characters (a tag or a word of prose), and the   *)
(* text of one complete JSON object.  Paths are sequences of atoms in      *)
(* which "/" and "." stand alone, so that splitting a path on either is    *)
(* computed, not assumed.                                                  *)
(***************************************************************************)
EXTENDS Naturals, Sequences, FiniteSets, TLC

VARIABLES
  response,      \* parser: the text handed to parseMultiFileResponse
  doc,           \* parser: the value JSON.parse gives for the atom JSONDOC
  parseResult,   \* parser: what parseMultiFileResponse returned
  archive,       \* parser: what createZip produced from parseResult.files
  parseStage,    \* parser: "input" -> "parsed" -> "exported"
  sseText,       \* stream: the server-sent-event text of one response
  pending,       \* stream: the part of sseText the reader has not delivered yet
  fullContent,   \* stream: handleGenerate's fullContent, one atom per increment
  thrown,        \* stream: messages of the errors thrown at the error envelope
  streamStage,   \* stream: "reading" -> "succeeded" | "failed"
  caught,        \* stream: message of the error that reached the outer catch
  template,      \* page: the selected template id ("" for none)
  isMultiFile,   \* page: useState isMultiFile
  editorFiles,   \* page: useState editorFiles
  activeFileId,  \* page: useState activeFileId
  generated,     \* page: useState generated
  isGenerating,  \* page: useState isGenerating
  genContent,    \* page: fullContent of the handleGenerate call in flight
  history,       \* page: the stored history, newest first
  saveBody,      \* page: the body of the last request handleSave sent
  cwd,           \* save: process.cwd(), as directory names from the root
  gitDirs,       \* save: the directories that hold a .git entry
  saveReq,       \* save: the body of the POST /api/save being handled
  basePath,      \* save: the save root chosen for the request
  disk,          \* save: the files written, path -> content, as a set of pairs
  saveStep,      \* save: 0 before the request, then 1 + files written, ...
  saveResponse,  \* save: the response of the request
  clPath,        \* classifier: the path handed to getLanguageFromPath
  clResult,      \* classifier: the value it returned
  clStage,       \* classifier: "input" -> "done"
  nextId,        \* history: the clock that names the next history item
  histOp,        \* history: the last call made on the history store
  users,         \* accounts: the user list in localStorage
  session,       \* accounts: the username of the stored session (<<>> for none)
  calls,         \* accounts: the calls of account operations, by call number
  online,        \* network: currentStatus.online of the network manager
  operationQueue,    \* network: the queued operations
  nextOpId,      \* network: the clock that names the next queued operation
  isProcessingQueue, \* network: the flag of processQueue
  passes,        \* network: the processQueue passes, by pass number
  fetched,       \* network: the urls fetch has been called with
  retry          \* retry: one call of withRetry or of resilientFetch

parserVars == <<response, doc, parseResult, archive, parseStage>>

streamVars == <<sseText, pending, fullContent, thrown, streamStage, caught>>

pageVars ==
  <<template, isMultiFile, editorFiles, activeFileId, generated, isGenerating,
    genContent, history, saveBody>>

saveVars == <<cwd, gitDirs, saveReq, basePath, disk, saveStep, saveResponse>>

classifierVars == <<clPath, clResult, clStage>>

historyVars == <<nextId, histOp>>

accountVars == <<users, session, calls>>

networkVars ==
  <<online, operationQueue, nextOpId, isProcessingQueue, passes, fetched>>

retryVars == <<retry>>

netVars == <<networkVars, retryVars>>

libVars == <<classifierVars, historyVars, accountVars, netVars>>

vars == <<parserVars, streamVars, pageVars, saveVars, libVars>>

\* What the actions of one part leave alone.
notParser == <<streamVars, pageVars, saveVars, libVars>>

notStream == <<parserVars, pageVars, saveVars, libVars>>

notPage == <<parserVars, streamVars, saveVars, libVars>>

notSave == <<parserVars, streamVars, pageVars, libVars>>

notClassifier ==
  <<parserVars, streamVars, pageVars, saveVars, historyVars, accountVars, netVars>>

-----------------------------------------------------------------------------
(* Bounds of the model *)

MaxSegs == 3        \* segments in a response text
MaxJsonFiles == 2   \* elements of a JSON document's files array
MaxEvents == 3      \* events in a server-sent-event text
MaxIncrements == 2  \* content increments of one generation on the page
MaxHistory == 2     \* generations the page model runs (entries of the history)
MaxSaveFiles == 2   \* files of a save request
MaxDepth == 2       \* depth of the working directory below the root
MaxPathAtoms == 3   \* atoms of a path handed to the classifier
MaxSaves == 52      \* calls of saveToHistory in one run of the history store
MaxRemovals == 1    \* calls of deleteFromHistory and clearHistory in one run
MaxCalls == 3       \* createAccount calls in one run of the accounts
MaxOps == 3         \* calls of account operations in one run of all operations
MaxAttempts == 3    \* the largest maxAttempts a call of withRetry is given
MaxPosts == 2       \* the largest operation number a POST made offline is given
MaxPasses == 2      \* passes of processQueue in one run of the network manager
MaxQueued == 4      \* the longest queue a pass of processQueue is started on

-----------------------------------------------------------------------------
(* Atoms and small helpers *)

FENCE == "<fence>"      \* three backticks
NL == "\n"
JSONDOC == "{doc}"       \* the text of the JSON object whose value is doc
EMPTYOBJ == "{}"         \* the text of the JSON object {}

WordAtoms == {"json", "markdown", "typescript", "text"}

IsWord(a) == a \in WordAtoms

IsJsonAtom(a) == a \in {JSONDOC, EMPTYOBJ}

Min(S) == CHOOSE x \in S : \A y \in S : x <= y

Max(S) == CHOOSE x \in S : \A y \in S : x >= y

Atoms(s) == {s[i] : i \in 1..Len(s)}

RECURSIVE ConcatAtoms(_)
ConcatAtoms(s) == IF s = <<>> THEN "" ELSE Head(s) \o ConcatAtoms(Tail(s))

-----------------------------------------------------------------------------
(* JSON values *)

NullElem == [isNull |-> TRUE, path |-> <<>>, content |-> <<>>, language |-> ""]

\* A field that is absent is the empty sequence or the empty string: the code
\* reads every field through ||, which treats absent and empty alike.
ObjElem(p, c, l) == [isNull |-> FALSE, path |-> p, content |-> c, language |-> l]

Elems ==
  { NullElem,
    ObjElem(<<"a", ".", "md">>, <<"text">>, ""),
    ObjElem(<<"SKILL", ".", "md">>, <<>>, ""),
    ObjElem(<<>>, <<"text">>, "typescript"),
    ObjElem(<<>>, <<>>, ""),
    ObjElem(<<"b", ".", "rs">>, <<"text">>, "rust") }

RECURSIVE SeqsUpTo(_, _)
SeqsUpTo(S, n) ==
  IF n = 0 THEN {<<>>}
  ELSE LET P == SeqsUpTo(S, n - 1) IN P \cup {Append(p, x) : p \in P, x \in S}

NoFilesDoc == [hasFiles |-> FALSE, files |-> <<>>, hasManifest |-> FALSE]

Docs ==
  {NoFilesDoc} \cup
  { [hasFiles |-> TRUE, files |-> f, hasManifest |-> m] :
      f \in SeqsUpTo(Elems, MaxJsonFiles), m \in BOOLEAN }

JsonValue(a) == IF a = JSONDOC THEN doc ELSE NoFilesDoc

\* JSON.parse of a stretch of text: white space around one JSON object is
\* allowed, anything else throws.
JSONparse(t) ==
  LET core == SelectSeq(t, LAMBDA a : a # NL)
  IN  IF Len(core) = 1 /\ IsJsonAtom(core[1])
      THEN [ok |-> TRUE, value |-> JsonValue(core[1])]
      ELSE [ok |-> FALSE, value |-> NoFilesDoc]

-----------------------------------------------------------------------------
(* The classifier *)

Extensions ==
  [markdown |-> "md", typescript |-> "ts", javascript |-> "js", json |-> "json",
   yaml |-> "yaml", html |-> "html", css |-> "css", plaintext |-> "txt"]

\* Reading a property of an object literal: its own properties first, then
\* those it inherits from Object.prototype, else undefined.
ObjectPrototypeKeys ==
  {"constructor", "__proto__", "toString", "valueOf", "hasOwnProperty",
   "isPrototypeOf", "propertyIsEnumerable", "toLocaleString"}

INHERITED == "[inherited member of Object.prototype]"

UNDEFINED == "[undefined]"

GetProperty(obj, key) ==
  IF key \in DOMAIN obj THEN obj[key]
  ELSE IF key \in ObjectPrototypeKeys THEN INHERITED
  ELSE UNDEFINED

getFileExtension(language) ==
  IF GetProperty(Extensions, language) # UNDEFINED
  THEN GetProperty(Extensions, language) ELSE "txt"

Languages ==
  [md |-> "markdown", tsx |-> "typescript", ts |-> "typescript",
   jsx |-> "javascript", js |-> "javascript", json |-> "json", css |-> "css",
   html |-> "html", yaml |-> "yaml", yml |-> "yaml", txt |-> "plaintext"]

\* path.split('.').pop(): the text after the last "." (the whole path when
\* it has none).
LastDotPart(path) ==
  LET dots == {i \in 1..Len(path) : path[i] = "."}
  IN  IF dots = {} THEN path ELSE SubSeq(path, Max(dots) + 1, Len(path))

LowerCase ==
  [MD |-> "md", TS |-> "ts", JSON |-> "json", toString |-> "tostring"]

toLowerCase(w) == IF w \in DOMAIN LowerCase THEN LowerCase[w] ELSE w

getLanguageFromPath(path) ==
  LET ext == toLowerCase(ConcatAtoms(LastDotPart(path)))
  IN  IF GetProperty(Languages, ext) # UNDEFINED
      THEN GetProperty(Languages, ext) ELSE "plaintext"

-----------------------------------------------------------------------------
(* parseMultiFileResponse *)

NoManifest == [present |-> FALSE, name |-> "", rootStructure |-> ""]

DocManifest == [present |-> TRUE, name |-> "doc", rootStructure |-> "nested"]

FlatManifest ==
  [present |-> TRUE, name |-> "multi-file-artifact", rootStructure |-> "flat"]

EditorFile(id, path, content, language) ==
  [id |-> id, path |-> path, content |-> content, language |-> language]

\* /<fence>json\n([\s\S]*?)\n<fence>/ : the leftmost "<fence>json\n" that some later
\* "\n<fence>" closes, and the nearest such close.
JsonFenceCloses(s, i) ==
  {j \in (i + 3)..(Len(s) - 1) : s[j] = NL /\ s[j + 1] = FENCE}

JsonFenceStarts(s) ==
  {i \in 1..Len(s) :
     /\ i + 2 <= Len(s)
     /\ s[i] = FENCE /\ s[i + 1] = "json" /\ s[i + 2] = NL
     /\ JsonFenceCloses(s, i) # {}}

\* /{[\s\S]*}/ : from the first "{" to the last "}".
BraceAtoms(s) == {i \in 1..Len(s) : IsJsonAtom(s[i])}

\* jsonMatch[1] || jsonMatch[0], or no match at all.
JsonCandidate(s) ==
  IF JsonFenceStarts(s) # {}
  THEN LET i == Min(JsonFenceStarts(s))
           j == Min(JsonFenceCloses(s, i))
           group1 == SubSeq(s, i + 3, j - 1)
       IN  [found |-> TRUE,
            text |-> IF group1 # <<>> THEN group1 ELSE SubSeq(s, i, j + 1)]
  ELSE IF BraceAtoms(s) # {}
  THEN [found |-> TRUE, text |-> SubSeq(s, Min(BraceAtoms(s)), Max(BraceAtoms(s)))]
  ELSE [found |-> FALSE, text |-> <<>>]

\* One call of the forEach callback of the JSON tier, for the element at
\* JavaScript index index.
JsonFile(f, index) ==
  EditorFile("file-" \o ToString(index),
             IF f.path # <<>> THEN f.path ELSE <<"file-", ToString(index), ".", "md">>,
             f.content,
             IF f.language # "" THEN f.language ELSE getLanguageFromPath(f.path))

\* parsed.files.forEach(...): reading a property of null throws, and the
\* files pushed before it stay in files.
RECURSIVE JsonFiles(_, _, _)
JsonFiles(elems, index, files) ==
  IF index >= Len(elems) THEN [threw |-> FALSE, files |-> files]
  ELSE IF elems[index + 1].isNull THEN [threw |-> TRUE, files |-> files]
  ELSE JsonFiles(elems, index + 1, Append(files, JsonFile(elems[index + 1], index)))

\* /<fence>(\w*)\n/ at position i: the position of the "\n" that ends the
\* opening fence, 0 when position i opens no block.
OpenerNL(s, i) ==
  IF i > Len(s) \/ s[i] # FENCE THEN 0
  ELSE LET rest == {p \in (i + 1)..Len(s) : ~IsWord(s[p])}
       IN  IF rest # {} /\ s[Min(rest)] = NL THEN Min(rest) ELSE 0

FencesAfter(s, p) == {k \in (p + 1)..Len(s) : s[k] = FENCE}

\* response.match(/<fence>(\w*)\n([\s\S]*?)<fence>/g): the blocks, left to right,
\* each search resuming after the previous match.
RECURSIVE CodeBlocks(_, _)
CodeBlocks(s, from) ==
  LET starts == {i \in from..Len(s) :
                   OpenerNL(s, i) # 0 /\ FencesAfter(s, OpenerNL(s, i)) # {}}
  IN  IF starts = {} THEN <<>>
      ELSE LET i == Min(starts)
               k == Min(FencesAfter(s, OpenerNL(s, i)))
           IN  <<SubSeq(s, i, k)>> \o CodeBlocks(s, k + 1)

\* One call of the forEach callback of the fenced-block tier.
BlockFile(block, index) ==
  LET nl == OpenerNL(block, 1)
      tag == ConcatAtoms(SubSeq(block, 2, nl - 1))
      language == IF tag # "" THEN tag ELSE "markdown"
      close == Min(FencesAfter(block, nl))
      content == SubSeq(block, nl + 1, close - 1)
      ext == getFileExtension(language)
      path == IF index = 0 THEN <<"SKILL", ".", "md">>
              ELSE <<"src", "/", "file-", ToString(index), ".", ext>>
  IN  EditorFile("file-" \o ToString(index), path, content, language)

RECURSIVE BlockFiles(_, _, _)
BlockFiles(blocks, index, files) ==
  IF index >= Len(blocks) THEN files
  ELSE BlockFiles(blocks, index + 1, Append(files, BlockFile(blocks[index + 1], index)))

\* The outcome of the try block: "returned" with the JSON result, or the
\* files left in files when control reaches the markdown parsing.
JsonTier(s) ==
  LET cand == JsonCandidate(s)
      parsed == JSONparse(cand.text)
      each == JsonFiles(parsed.value.files, 0, <<>>)
  IN  IF cand.found /\ parsed.ok /\ parsed.value.hasFiles
      THEN IF each.threw
           THEN [returned |-> FALSE, files |-> each.files, manifest |-> NoManifest]
           ELSE [returned |-> TRUE, files |-> each.files,
                 manifest |-> IF parsed.value.hasManifest THEN DocManifest ELSE NoManifest]
      ELSE [returned |-> FALSE, files |-> <<>>, manifest |-> NoManifest]

parseMultiFileResponse(s) ==
  LET json == JsonTier(s)
      codeBlocks == CodeBlocks(s, 1)
  IN  IF json.returned THEN [files |-> json.files, manifest |-> json.manifest]
      ELSE IF Len(codeBlocks) > 1
      THEN [files |-> BlockFiles(codeBlocks, 0, json.files), manifest |-> FlatManifest]
      ELSE [files |-> Append(json.files,
                             EditorFile("file-0", <<"artifact", ".", "md">>, s, "markdown")),
            manifest |-> NoManifest]

-----------------------------------------------------------------------------
(* createZip *)

\* zip.file(path, content) for each file in turn: an entry of the same name
\* is replaced.
RECURSIVE ZipEntries(_, _)
ZipEntries(files, entries) ==
  IF files = <<>> THEN entries
  ELSE LET f == Head(files)
       IN  ZipEntries(Tail(files),
                      {e \in entries : e.name # f.path}
                        \cup {[name |-> f.path, content |-> f.content]})

\* file.path.split('/').pop() || 'artifact'
BaseName(path) ==
  LET slashes == {i \in 1..Len(path) : path[i] = "/"}
      last == IF slashes = {} THEN path ELSE SubSeq(path, Max(slashes) + 1, Len(path))
  IN  IF last # <<>> THEN last ELSE <<"artifact">>

createZip(files) ==
  IF Len(files) = 0 THEN [kind |-> "error", entries |-> {}]
  ELSE IF Len(files) = 1
  THEN [kind |-> "download",
        entries |-> {[name |-> BaseName(files[1].path), content |-> files[1].content]}]
  ELSE [kind |-> "zip", entries |-> ZipEntries(files, {})]

-----------------------------------------------------------------------------
(* The parser as a state machine: a response text, parsed, then exported *)

Block(tag) ==
  IF tag = "" THEN <<FENCE, NL, "text", NL, FENCE, NL>>
  ELSE <<FENCE, tag, NL, "text", NL, FENCE, NL>>

Segments ==
  { <<"text">>, <<NL>>, <<FENCE>>, <<JSONDOC>>, <<EMPTYOBJ>>,
    Block(""), Block("markdown"), Block("typescript"), Block("json"),
    <<FENCE, "json", NL, JSONDOC, NL, FENCE, NL>> }

RECURSIVE Texts(_)
Texts(n) ==
  IF n = 0 THEN {<<>>}
  ELSE LET P == Texts(n - 1) IN P \cup {t \o g : t \in P, g \in Segments}

NoResult == [files |-> <<>>, manifest |-> NoManifest]

NoArchive == [kind |-> "none", entries |-> {}]

ParserIdle ==
  /\ response = <<>>
  /\ doc = NoFilesDoc
  /\ parseResult = NoResult
  /\ archive = NoArchive
  /\ parseStage = "input"

ParserInit ==
  /\ response \in Texts(MaxSegs)
  /\ doc \in (IF JSONDOC \in Atoms(response) THEN Docs ELSE {NoFilesDoc})
  /\ parseResult = NoResult
  /\ archive = NoArchive
  /\ parseStage = "input"

Parse ==
  /\ parseStage = "input"
  /\ parseResult' = parseMultiFileResponse(response)
  /\ parseStage' = "parsed"
  /\ UNCHANGED <<response, doc, archive, notParser>>

Export ==
  /\ parseStage = "parsed"
  /\ archive' = createZip(parseResult.files)
  /\ parseStage' = "exported"
  /\ UNCHANGED <<response, doc, parseResult, notParser>>

ParserNext == Parse \/ Export

-----------------------------------------------------------------------------
(* The stream reader of handleGenerate *)

DATA == "data: "
DONE == "[DONE]"
OPENCONTENT == "{\"content\":\""
OPENERROR == "{\"error\":\""
CLOSE == "\"}"

ValueAtoms == {"ab", "cd", "rate limited"}

ContentEvent(v) == <<DATA, OPENCONTENT, v, CLOSE, NL, NL>>

ErrorEvent(m) == <<DATA, OPENERROR, m, CLOSE, NL, NL>>

DoneEvent == <<DATA, DONE, NL, NL>>

Events ==
  {ContentEvent("ab"), ContentEvent("cd"), ErrorEvent("rate limited"), DoneEvent}

RECURSIVE EventTexts(_)
EventTexts(n) ==
  IF n = 0 THEN {<<>>}
  ELSE LET P == EventTexts(n - 1) IN P \cup {t \o e : t \in P, e \in Events}

\* chunk.split('\n')
RECURSIVE Split(_, _)
Split(s, sep) ==
  LET at == {i \in 1..Len(s) : s[i] = sep}
  IN  IF at = {} THEN <<s>>
      ELSE <<SubSeq(s, 1, Min(at) - 1)>> \o Split(SubSeq(s, Min(at) + 1, Len(s)), sep)

\* JSON.parse(data) of an envelope; a field that is absent is "".
ParseEnvelope(data) ==
  IF Len(data) = 3 /\ data[1] = OPENCONTENT /\ data[2] \in ValueAtoms /\ data[3] = CLOSE
  THEN [ok |-> TRUE, content |-> data[2], error |-> ""]
  ELSE IF Len(data) = 3 /\ data[1] = OPENERROR /\ data[2] \in ValueAtoms /\ data[3] = CLOSE
  THEN [ok |-> TRUE, content |-> "", error |-> data[2]]
  ELSE IF data = <<OPENCONTENT, CLOSE>> \/ data = <<OPENERROR, CLOSE>>
  THEN [ok |-> TRUE, content |-> "", error |-> ""]
  ELSE [ok |-> FALSE, content |-> "", error |-> ""]

\* A reader that keeps only the latest increment instead of appending it.
ProcessLineOverwrites(line, st) ==
  IF Len(line) = 4 /\ line[1] = DATA /\ ParseEnvelope(Tail(line)).content # ""
  THEN [st EXCEPT !.fullContent = <<ParseEnvelope(Tail(line)).content>>]
  ELSE st

\* The body of the loop over the lines of a chunk.  st holds fullContent and
\* the errors thrown so far; the error thrown at an error envelope is caught
\* by the catch that skips invalid JSON lines.
ProcessLine(line, st) ==
  IF Len(line) >= 1 /\ line[1] = DATA
  THEN LET data == Tail(line)
           parsed == ParseEnvelope(data)
       IN  IF data = <<DONE>> THEN st
           ELSE IF ~parsed.ok THEN st
           ELSE IF parsed.content # ""
           THEN [st EXCEPT !.fullContent = Append(@, parsed.content)]
           ELSE IF parsed.error # ""
           THEN [st EXCEPT !.thrown = Append(@, parsed.error)]
           ELSE st
  ELSE st

RECURSIVE ProcessLines(_, _)
ProcessLines(lines, st) ==
  IF lines = <<>> THEN st
  ELSE ProcessLines(Tail(lines), ProcessLine(Head(lines), st))

\* One pass of the while loop: decode the chunk, split it, handle its lines.
ProcessChunk(chunk, st) == ProcessLines(Split(chunk, NL), st)

NoContentMessage == "No content was generated. Please try again."

StreamIdle ==
  /\ sseText = <<>>
  /\ pending = <<>>
  /\ fullContent = <<>>
  /\ thrown = <<>>
  /\ streamStage = "reading"
  /\ caught = ""

StreamInit ==
  /\ sseText \in EventTexts(MaxEvents)
  /\ pending = sseText
  /\ fullContent = <<>>
  /\ thrown = <<>>
  /\ streamStage = "reading"
  /\ caught = ""

\* reader.read() resolves with the next n atoms of the text.
ReadChunk(n) ==
  /\ streamStage = "reading"
  /\ n <= Len(pending)
  /\ LET st == ProcessChunk(SubSeq(pending, 1, n),
                            [fullContent |-> fullContent, thrown |-> thrown])
     IN  /\ fullContent' = st.fullContent
         /\ thrown' = st.thrown
  /\ pending' = SubSeq(pending, n + 1, Len(pending))
  /\ UNCHANGED <<sseText, streamStage, caught, notStream>>

\* reader.read() resolves with done: the loop ends, and an empty fullContent
\* is thrown to the outer catch.
ReadDone ==
  /\ streamStage = "reading"
  /\ pending = <<>>
  /\ IF fullContent = <<>>
     THEN streamStage' = "failed" /\ caught' = NoContentMessage
     ELSE streamStage' = "succeeded" /\ caught' = ""
  /\ UNCHANGED <<sseText, pending, fullContent, thrown, notStream>>

StreamNext == (\E n \in 1..Len(sseText) : ReadChunk(n)) \/ ReadDone

\* reader.read() resolves with a chunk that ends at the end of a line.
ReadLines(n) ==
  /\ n <= Len(pending)
  /\ pending[n] = NL
  /\ ReadChunk(n)

LineStreamNext == (\E n \in 1..Len(sseText) : ReadLines(n)) \/ ReadDone

-----------------------------------------------------------------------------
(* The home page: state, handlers, and handleGenerate around the stream *)

MAX_HISTORY_ITEMS == 50

TemplateIds == {"security-reviewer", "generic-skill"}

\* currentTemplate?.multiFile: no template of lib/templates sets multiFile.
TemplateMultiFile(t) == FALSE

PageSegments == {<<"text">>, Block("markdown")}

NoSaveBody == [sent |-> FALSE, content |-> <<>>, isMultiFile |-> FALSE,
               hasFiles |-> FALSE, files |-> <<>>]

\* f => ({path, content, language}), over a list of files.
PlainFiles(files) ==
  [i \in 1..Len(files) |->
     [path |-> files[i].path, content |-> files[i].content, language |-> files[i].language]]

\* The item handleGenerate hands to saveToHistory.
HistoryItemOf(content, result) ==
  [content |-> content,
   isMultiFile |-> Len(result.files) > 1,
   hasFiles |-> Len(result.files) > 1,
   files |-> IF Len(result.files) > 1 THEN PlainFiles(result.files) ELSE <<>>]

\* A store that keeps no limit: [newItem, ...history].
saveToHistoryUnlimited(item, h) == <<item>> \o h

\* A store that drops its oldest item at every save.
saveToHistoryDropsOldest(item, h) ==
  <<item>> \o SubSeq(h, 1, IF Len(h) = 0 THEN 0 ELSE Len(h) - 1)

\* [newItem, ...history].slice(0, MAX_HISTORY_ITEMS)
saveToHistory(item, h) ==
  LET all == <<item>> \o h
  IN  SubSeq(all, 1, IF Len(all) < MAX_HISTORY_ITEMS THEN Len(all) ELSE MAX_HISTORY_ITEMS)

filesToArtifact(files, type) ==
  [type |-> type,
   content |-> IF Len(files) > 0 THEN files[1].content ELSE <<>>,
   files |-> PlainFiles(files),
   isMultiFile |-> Len(files) > 1,
   rootStructure |-> IF Len(files) > 1 THEN "nested" ELSE "flat"]

PageInit ==
  /\ template = ""
  /\ isMultiFile = FALSE
  /\ editorFiles = <<>>
  /\ activeFileId = ""
  /\ generated = <<>>
  /\ isGenerating = FALSE
  /\ genContent = <<>>
  /\ history = <<>>
  /\ saveBody = NoSaveBody

\* TemplatePicker onChange={setTemplate}, and the effect on currentTemplate.
SelectTemplate(t) ==
  /\ template' = t
  /\ isMultiFile' = IF t # "" /\ TemplateMultiFile(t) THEN TRUE ELSE isMultiFile
  /\ UNCHANGED <<editorFiles, activeFileId, generated, isGenerating, genContent,
                 history, saveBody, notPage>>

\* handleGenerate up to its first await: setIsGenerating(true) and
\* resetEditorState().  The button is disabled while isGenerating.
GenerateStart ==
  /\ ~isGenerating
  /\ Len(history) < MaxHistory
  /\ isGenerating' = TRUE
  /\ generated' = <<>>
  /\ editorFiles' = <<>>
  /\ activeFileId' = ""
  /\ isMultiFile' = FALSE
  /\ genContent' = <<>>
  /\ UNCHANGED <<template, history, saveBody, notPage>>

\* A read of the stream that yields one content increment:
\* fullContent += parsed.content; setGenerated(fullContent).  Every segment
\* holds one "text" atom, so counting them counts the increments.
GenerateIncrement(seg) ==
  /\ isGenerating
  /\ Len(SelectSeq(genContent, LAMBDA a : a = "text")) < MaxIncrements
  /\ genContent' = genContent \o seg
  /\ generated' = genContent'
  /\ UNCHANGED <<template, isMultiFile, editorFiles, activeFileId, isGenerating,
                 history, saveBody, notPage>>

\* The stream ends with no content: the error is caught, isGenerating is
\* cleared in the finally block.
GenerateFail ==
  /\ isGenerating
  /\ genContent = <<>>
  /\ isGenerating' = FALSE
  /\ UNCHANGED <<template, isMultiFile, editorFiles, activeFileId, generated,
                 genContent, history, saveBody, notPage>>

\* The stream ends with content: parse it, set the editor state, save the
\* history item, clear isGenerating.
GenerateFinish ==
  /\ isGenerating
  /\ genContent # <<>>
  /\ LET parsedResult == parseMultiFileResponse(genContent)
     IN  /\ IF Len(parsedResult.files) > 1
            THEN /\ editorFiles' = parsedResult.files
                 /\ activeFileId' = parsedResult.files[1].id
                 /\ isMultiFile' = TRUE
                 /\ generated' = genContent
            ELSE /\ isMultiFile' = FALSE
                 /\ generated' = IF Len(parsedResult.files) > 0
                                    /\ parsedResult.files[1].content # <<>>
                                 THEN parsedResult.files[1].content
                                 ELSE genContent
                 /\ UNCHANGED <<editorFiles, activeFileId>>
         /\ history' = saveToHistory(HistoryItemOf(genContent, parsedResult), history)
  /\ isGenerating' = FALSE
  /\ genContent' = <<>>
  /\ UNCHANGED <<template, saveBody, notPage>>

handleLoadFromHistory(i) ==
  /\ i \in 1..Len(history)
  /\ LET item == history[i]
         files == [k \in 1..Len(item.files) |->
                     EditorFile("file-" \o ToString(k - 1), item.files[k].path,
                                item.files[k].content,
                                IF item.files[k].language # "" THEN item.files[k].language
                                ELSE "markdown")]
     IN  /\ generated' = item.content
         /\ IF item.isMultiFile /\ item.hasFiles
            THEN /\ editorFiles' = files
                 /\ activeFileId' = IF Len(files) > 0 THEN files[1].id ELSE ""
                 /\ isMultiFile' = TRUE
            ELSE /\ isMultiFile' = FALSE
                 /\ editorFiles' = <<>>
                 /\ activeFileId' = ""
  /\ UNCHANGED <<template, isGenerating, genContent, history, saveBody, notPage>>

handleFileChange(fileId, content) ==
  /\ \E k \in 1..Len(editorFiles) : editorFiles[k].id = fileId
  /\ editorFiles' = [k \in 1..Len(editorFiles) |->
                       IF editorFiles[k].id = fileId
                       THEN [editorFiles[k] EXCEPT !.content = content]
                       ELSE editorFiles[k]]
  /\ UNCHANGED <<template, isMultiFile, activeFileId, generated, isGenerating,
                 genContent, history, saveBody, notPage>>

\* handleSave up to the fetch: the body it sends to /api/save.
handleSave ==
  /\ generated # <<>>
  /\ saveBody' = [sent |-> TRUE, content |-> generated, isMultiFile |-> isMultiFile,
                  hasFiles |-> isMultiFile,
                  files |-> IF isMultiFile THEN PlainFiles(editorFiles) ELSE <<>>]
  /\ UNCHANGED <<template, isMultiFile, editorFiles, activeFileId, generated,
                 isGenerating, genContent, history, notPage>>

PageNext ==
  \/ \E t \in TemplateIds \cup {""} : SelectTemplate(t)
  \/ GenerateStart
  \/ \E seg \in PageSegments : GenerateIncrement(seg)
  \/ GenerateFail
  \/ GenerateFinish
  \/ \E i \in 1..MaxHistory : handleLoadFromHistory(i)
  \/ \E id \in {"file-0", "file-1"} : handleFileChange(id, <<"edited">>)
  \/ handleSave

-----------------------------------------------------------------------------
(* POST /api/save *)

HomeDir == <<<<"home">>>>

DirNames == <<<<"proj">>, <<"app">>, <<"deep">>>>

\* path.join / path.normalize over "/"-separated text: the components, with
\* "" and "." dropped and ".." removing the component before it.
RECURSIVE Resolve(_, _)
Resolve(parts, stack) ==
  IF parts = <<>> THEN stack
  ELSE LET c == Head(parts)
       IN  IF c = <<>> \/ c = <<".">> THEN Resolve(Tail(parts), stack)
           ELSE IF c = <<".", ".">>
           THEN Resolve(Tail(parts),
                        IF stack = <<>> THEN stack ELSE SubSeq(stack, 1, Len(stack) - 1))
           ELSE Resolve(Tail(parts), Append(stack, c))

\* path.join(base, rel), base being an absolute path already resolved.
PathJoin(base, rel) == Resolve(Split(rel, "/"), base)

NAMELINE == "name: demo"

\* extractName: the name of the frontmatter when the content has one, else a
\* name made of the type and the clock.
extractName(content, type) ==
  IF NAMELINE \in Atoms(content) THEN <<"demo">>
  ELSE <<"claude-forge-", type, "-", "now">>

\* isInGitRepo: walk up from the working directory while it is not the root.
RECURSIVE isInGitRepo(_)
isInGitRepo(currentDir) ==
  IF currentDir = <<>> THEN FALSE
  ELSE IF currentDir \in gitDirs THEN TRUE
  ELSE isInGitRepo(SubSeq(currentDir, 1, Len(currentDir) - 1))

getSavePath(content, type) ==
  LET artifactName == extractName(content, type)
      tail == <<<<".", "claude">>, <<"skills">>, artifactName>>
  IN  IF isInGitRepo(cwd) THEN cwd \o tail ELSE HomeDir \o tail

MainFileName(type) == IF type = "skill" THEN <<"SKILL", ".", "md">> ELSE <<type, ".", "md">>

\* fs.writeFile(path, content): the file is created or replaced.
writeFile(d, path, content) ==
  {e \in d : e.path # path} \cup {[path |-> path, content |-> content]}

SaveFileChoices ==
  { [path |-> <<"SKILL", ".", "md">>, content |-> <<"first">>, language |-> "markdown"],
    [path |-> <<"src", "/", "file-", "1", ".", "ts">>, content |-> <<"second">>,
     language |-> "typescript"],
    [path |-> <<"notes", ".", "md">>, content |-> <<"third">>, language |-> "markdown"],
    [path |-> <<".", ".", "/", ".", ".", "/", "out", ".", "md">>, content |-> <<"fourth">>,
     language |-> "markdown"] }

SaveRequests ==
  { [content |-> c, type |-> t, isMultiFile |-> m, files |-> f] :
      c \in {<<>>, <<"raw">>, <<NAMELINE, "raw">>}, t \in {"skill", "agent"},
      m \in BOOLEAN, f \in SeqsUpTo(SaveFileChoices, MaxSaveFiles) }

NoRequest == [content |-> <<>>, type |-> "skill", isMultiFile |-> FALSE, files |-> <<>>]

NoResponse == [status |-> 0, filesCount |-> 0]

WorkingDirs == {SubSeq(DirNames, 1, n) : n \in 0..MaxDepth}

PrefixesOf(dir) == {SubSeq(dir, 1, n) : n \in 0..Len(dir)}

SaveIdle ==
  /\ cwd = <<>>
  /\ gitDirs = {}
  /\ saveReq = NoRequest
  /\ basePath = <<>>
  /\ disk = {}
  /\ saveStep = 0
  /\ saveResponse = NoResponse

SaveInit ==
  /\ cwd \in WorkingDirs
  /\ gitDirs \in SUBSET PrefixesOf(cwd)
  /\ saveReq = NoRequest
  /\ basePath = <<>>
  /\ disk = {}
  /\ saveStep = 0
  /\ saveResponse = NoResponse

MultiFileBranch(req) == req.isMultiFile /\ Len(req.files) > 0

\* POST up to the first write: read the body, refuse empty content, choose
\* the save root and create it.
SaveBegin(req) ==
  /\ saveStep = 0
  /\ saveReq' = req
  /\ IF req.content = <<>>
     THEN /\ saveResponse' = [status |-> 400, filesCount |-> 0]
          /\ saveStep' = 100
          /\ UNCHANGED basePath
     ELSE /\ basePath' = getSavePath(req.content, req.type)
          /\ saveStep' = 1
          /\ UNCHANGED saveResponse
  /\ UNCHANGED <<cwd, gitDirs, disk, notSave>>

\* One turn of the loop over files: mkdir of the parent, writeFile.
SaveWriteFile ==
  /\ saveStep \in 1..Len(saveReq.files)
  /\ MultiFileBranch(saveReq)
  /\ disk' = writeFile(disk, PathJoin(basePath, saveReq.files[saveStep].path),
                       saveReq.files[saveStep].content)
  /\ saveStep' = saveStep + 1
  /\ UNCHANGED <<cwd, gitDirs, saveReq, basePath, saveResponse, notSave>>

\* After the loop: the main file is written with the request's content, and
\* the response counts it as one more file.
SaveWriteMain ==
  /\ saveStep = Len(saveReq.files) + 1
  /\ MultiFileBranch(saveReq)
  /\ disk' = writeFile(disk, PathJoin(basePath, MainFileName(saveReq.type)), saveReq.content)
  /\ saveResponse' = [status |-> 200, filesCount |-> Len(saveReq.files) + 1]
  /\ saveStep' = 100
  /\ UNCHANGED <<cwd, gitDirs, saveReq, basePath, notSave>>

\* The single-file branch.
SaveWriteSingle ==
  /\ saveStep = 1
  /\ ~MultiFileBranch(saveReq)
  /\ disk' = writeFile(disk, PathJoin(basePath, MainFileName(saveReq.type)), saveReq.content)
  /\ saveResponse' = [status |-> 200, filesCount |-> 0]
  /\ saveStep' = 100
  /\ UNCHANGED <<cwd, gitDirs, saveReq, basePath, notSave>>

SaveNext ==
  \/ \E req \in SaveRequests : SaveBegin(req)
  \/ SaveWriteFile
  \/ SaveWriteMain
  \/ SaveWriteSingle

-----------------------------------------------------------------------------
(* Specifications: each part runs with the other parts at rest *)

-----------------------------------------------------------------------------
(* The classifier on its own: a path, classified *)

PathAtoms ==
  {"a", ".", "md", "tsx", "ts", "jsx", "js", "json", "css", "html", "yaml", "yml",
   "txt", "MD", "rs", "constructor", "toString"}

ClassifierIdle ==
  /\ clPath = <<>>
  /\ clResult = ""
  /\ clStage = "input"

ClassifierInit ==
  /\ clPath \in SeqsUpTo(PathAtoms, MaxPathAtoms)
  /\ clResult = ""
  /\ clStage = "input"

Classify ==
  /\ clStage = "input"
  /\ clResult' = getLanguageFromPath(clPath)
  /\ clStage' = "done"
  /\ UNCHANGED <<clPath, notClassifier>>

ClassifierNext == Classify

-----------------------------------------------------------------------------
(* The history store of lib/history on its own: the variable history holds *)
(* the list kept in localStorage                                           *)

NoHistOp == [op |-> "none", id |-> 0, removals |-> 0]

\* The item saveToHistory stores: the caller's fields, an id and createdAt
\* taken from the clock.
NewHistoryItem(clock) == [id |-> clock, createdAt |-> clock, content |-> <<"text">>]

\* The place an item takes in the sorted list: after the items of a later
\* date and after the earlier items of its own date.
PlaceByDate(items, i) ==
  1 + Cardinality({j \in 1..Len(items) :
                     \/ items[j].createdAt > items[i].createdAt
                     \/ items[j].createdAt = items[i].createdAt /\ j < i})

\* No item is followed by one of a later date: the sort leaves such a list
\* as it is.
SortedByDate(items) ==
  \A i \in 1..(Len(items) - 1) : items[i].createdAt >= items[i + 1].createdAt

\* items.sort((a, b) => b.createdAt - a.createdAt): newest first, items of
\* equal date keeping their order (the sort is stable).
SortByDateDesc(items) ==
  IF SortedByDate(items) THEN items
  ELSE LET place == [i \in 1..Len(items) |-> PlaceByDate(items, i)]
       IN  [k \in 1..Len(items) |->
              items[CHOOSE i \in 1..Len(items) : place[i] = k]]

getHistory == SortByDateDesc(history)

\* history.filter((item) => item.id !== id)
deleteFromHistory(id, h) == SelectSeq(h, LAMBDA item : item.id # id)

\* localStorage.removeItem(HISTORY_KEY)
clearHistory == <<>>

HistoryIdle ==
  /\ nextId = 1
  /\ histOp = NoHistOp

HistoryInit ==
  /\ nextId = 1
  /\ histOp = NoHistOp

HistSave ==
  /\ nextId <= MaxSaves
  /\ history' = saveToHistory(NewHistoryItem(nextId), getHistory)
  /\ nextId' = nextId + 1
  /\ histOp' = [histOp EXCEPT !.op = "save", !.id = nextId]
  /\ UNCHANGED <<template, isMultiFile, editorFiles, activeFileId, generated,
                 isGenerating, genContent, saveBody>>
  /\ UNCHANGED <<parserVars, streamVars, saveVars, classifierVars, accountVars, netVars>>

\* The ids deleteFromHistory is called with: the newest, the middle and the
\* oldest stored item, and an id (0) that no item has.
DeleteTargets(h) ==
  {0} \cup (IF h = <<>> THEN {}
           ELSE {h[1].id, h[(Len(h) + 1) \div 2].id, h[Len(h)].id})

HistDelete(id) ==
  /\ histOp.removals < MaxRemovals
  /\ id \in DeleteTargets(history)
  /\ history' = deleteFromHistory(id, getHistory)
  /\ histOp' = [op |-> "delete", id |-> id, removals |-> histOp.removals + 1]
  /\ UNCHANGED nextId
  /\ UNCHANGED <<template, isMultiFile, editorFiles, activeFileId, generated,
                 isGenerating, genContent, saveBody>>
  /\ UNCHANGED <<parserVars, streamVars, saveVars, classifierVars, accountVars, netVars>>

HistClear ==
  /\ histOp.removals < MaxRemovals
  /\ history' = clearHistory
  /\ histOp' = [op |-> "clear", id |-> 0, removals |-> histOp.removals + 1]
  /\ UNCHANGED nextId
  /\ UNCHANGED <<template, isMultiFile, editorFiles, activeFileId, generated,
                 isGenerating, genContent, saveBody>>
  /\ UNCHANGED <<parserVars, streamVars, saveVars, classifierVars, accountVars, netVars>>

HistoryNext ==
  \/ HistSave
  \/ \E id \in 0..MaxSaves : HistDelete(id)
  \/ HistClear

-----------------------------------------------------------------------------
(* The user accounts of lib/user-account: createAccount calls that may be  *)
(* in flight together, each suspended at its awaited password hash         *)

SPACE == " "

\* username.trim()
RECURSIVE TrimStart(_)
TrimStart(s) == IF s # <<>> /\ Head(s) = SPACE THEN TrimStart(Tail(s)) ELSE s

RECURSIVE TrimEnd(_)
TrimEnd(s) ==
  IF s # <<>> /\ s[Len(s)] = SPACE THEN TrimEnd(SubSeq(s, 1, Len(s) - 1)) ELSE s

trim(s) == TrimEnd(TrimStart(s))

UpperChars == {"S"}
LowerChars == {"e", "c", "u", "r", "w", "a", "k"}
DigitChars == {"1"}
SpecialChars == {"!"}

\* verifyPasswordStrength(password).valid, password being a list of characters
verifyPasswordStrength(password) ==
  /\ Len(password) >= 8
  /\ \E i \in 1..Len(password) : password[i] \in UpperChars
  /\ \E i \in 1..Len(password) : password[i] \in LowerChars
  /\ \E i \in 1..Len(password) : password[i] \in DigitChars
  /\ \E i \in 1..Len(password) : password[i] \in SpecialChars

\* hashPassword: the SHA-256 digest, one value per password.
hashPassword(password) == <<"sha256">> \o password

UsernameInputs == {<<"amy">>, <<SPACE, "amy", SPACE>>, <<"bob">>, <<SPACE>>}

PasswordInputs ==
  {<<"S", "e", "c", "u", "r", "e", "1", "!">>, <<"w", "e", "a", "k">>}

Names(us) == {us[i].username : i \in 1..Len(us)}

\* A duplicate check that finds nothing.
UsernameNeverTaken(us, name) == FALSE

\* users.some((u) => u.username === normalizedUsername)
UsernameTaken(us, name) == \E i \in 1..Len(us) : us[i].username = name

NoCall ==
  [op |-> "none", pc |-> "idle", username |-> <<>>, snapshot |-> <<>>,
   passwordHash |-> <<>>, newPassword |-> <<>>, during |-> {}, success |-> FALSE,
   error |-> ""]

\* A call of operation op that has returned { success: false, error }.
Failed(op, name, error) ==
  [NoCall EXCEPT !.op = op, !.pc = "done", !.username = name, !.error = error]

Rejected(name, error) == Failed("create", name, error)

\* A call of operation op suspended at its awaited hash of password.
Suspended(op, name, password) ==
  [NoCall EXCEPT !.op = op, !.pc = "hashing", !.username = name,
                 !.snapshot = users, !.passwordHash = hashPassword(password)]

InFlight == {c \in DOMAIN calls : calls[c].pc = "hashing"}

AccountIdle ==
  /\ users = <<>>
  /\ session = <<>>
  /\ calls = [c \in 1..MaxCalls |-> NoCall]

AccountInit ==
  /\ users = <<>>
  /\ session = <<>>
  /\ calls = [c \in 1..MaxCalls |-> NoCall]

\* createAccount up to its await: the checks, the read of the user list.
CreateBegin(c, username, password) ==
  /\ calls[c].pc = "idle"
  /\ \A b \in 1..(c - 1) : calls[b].pc # "idle"
  /\ LET name == trim(username)
     IN  calls' = [calls EXCEPT ![c] =
           IF username = <<>> \/ Len(name) = 0
           THEN Rejected(name, "Username is required")
           ELSE IF UsernameTaken(users, name)
           THEN Rejected(name, "Username already exists")
           ELSE IF ~verifyPasswordStrength(password)
           THEN Rejected(name, "Password requirements not met")
           ELSE [Suspended("create", name, password) EXCEPT !.during = InFlight]]
  /\ UNCHANGED <<users, session>>
  /\ UNCHANGED <<parserVars, streamVars, pageVars, saveVars, classifierVars, historyVars, netVars>>

\* createAccount after its await: push to the list it read, save it, log in.
CreateFinish(c) ==
  /\ calls[c].op = "create"
  /\ calls[c].pc = "hashing"
  /\ users' = Append(calls[c].snapshot,
                     [username |-> calls[c].username,
                      passwordHash |-> calls[c].passwordHash])
  /\ session' = calls[c].username
  /\ calls' = [calls EXCEPT ![c].pc = "done", ![c].success = TRUE]
  /\ UNCHANGED <<parserVars, streamVars, pageVars, saveVars, classifierVars, historyVars, netVars>>

\* users.find((u) => u.username === name): the index of the first account of
\* that name, 0 when there is none.
FindUser(us, name) ==
  IF UsernameTaken(us, name)
  THEN Min({i \in 1..Len(us) : us[i].username = name})
  ELSE 0

\* The next free call number.
FreeSlot(c) == calls[c].pc = "idle" /\ \A b \in 1..(c - 1) : calls[b].pc # "idle"

AccountNames == {<<"amy">>, <<"bob">>}

\* login up to its await.
LoginBegin(c, username, password) ==
  /\ FreeSlot(c)
  /\ LET name == trim(username)
     IN  calls' = [calls EXCEPT ![c] =
           IF username = <<>> \/ password = <<>>
           THEN Failed("login", name, "Username and password are required")
           ELSE IF FindUser(users, name) = 0
           THEN Failed("login", name, "Username not found")
           ELSE Suspended("login", name, password)]
  /\ UNCHANGED <<users, session>>
  /\ UNCHANGED <<parserVars, streamVars, pageVars, saveVars, classifierVars, historyVars, netVars>>

\* login after its await: compare the hashes, save the list it read (with
\* lastLogin set), store the session.
LoginFinish(c) ==
  /\ calls[c].op = "login"
  /\ calls[c].pc = "hashing"
  /\ LET user == calls[c].snapshot[FindUser(calls[c].snapshot, calls[c].username)]
     IN  IF calls[c].passwordHash # user.passwordHash
         THEN /\ calls' = [calls EXCEPT ![c].pc = "done", ![c].error = "Incorrect password"]
              /\ UNCHANGED <<users, session>>
         ELSE /\ users' = calls[c].snapshot
              /\ session' = calls[c].username
              /\ calls' = [calls EXCEPT ![c].pc = "done", ![c].success = TRUE]
  /\ UNCHANGED <<parserVars, streamVars, pageVars, saveVars, classifierVars, historyVars, netVars>>

\* logout(): clearSession.
Logout ==
  /\ session # <<>>
  /\ session' = <<>>
  /\ UNCHANGED <<users, calls>>
  /\ UNCHANGED <<parserVars, streamVars, pageVars, saveVars, classifierVars, historyVars, netVars>>

\* deleteAccount up to its await; the username is compared as given.
DeleteBegin(c, username, password) ==
  /\ FreeSlot(c)
  /\ calls' = [calls EXCEPT ![c] =
       IF FindUser(users, username) = 0
       THEN Failed("delete", username, "Username not found")
       ELSE Suspended("delete", username, password)]
  /\ UNCHANGED <<users, session>>
  /\ UNCHANGED <<parserVars, streamVars, pageVars, saveVars, classifierVars, historyVars, netVars>>

\* deleteAccount after its await: compare the hashes, read the session,
\* splice the account out of the list it read, save it, log out when the
\* session was the deleted account's.
DeleteFinish(c) ==
  /\ calls[c].op = "delete"
  /\ calls[c].pc = "hashing"
  /\ LET userIndex == FindUser(calls[c].snapshot, calls[c].username)
         user == calls[c].snapshot[userIndex]
     IN  IF calls[c].passwordHash # user.passwordHash
         THEN /\ calls' = [calls EXCEPT ![c].pc = "done", ![c].error = "Incorrect password"]
              /\ UNCHANGED <<users, session>>
         ELSE /\ users' = SubSeq(calls[c].snapshot, 1, userIndex - 1)
                            \o SubSeq(calls[c].snapshot, userIndex + 1, Len(calls[c].snapshot))
              /\ session' = IF session = calls[c].username THEN <<>> ELSE session
              /\ calls' = [calls EXCEPT ![c].pc = "done", ![c].success = TRUE]
  /\ UNCHANGED <<parserVars, streamVars, pageVars, saveVars, classifierVars, historyVars, netVars>>

\* changePassword up to its first await.
ChangeBegin(c, currentPassword, newPassword) ==
  /\ FreeSlot(c)
  /\ calls' = [calls EXCEPT ![c] =
       IF session = <<>>
       THEN Failed("change", <<>>, "Not logged in")
       ELSE IF FindUser(users, session) = 0
       THEN Failed("change", session, "User not found")
       ELSE [Suspended("change", session, currentPassword)
               EXCEPT !.newPassword = newPassword]]
  /\ UNCHANGED <<users, session>>
  /\ UNCHANGED <<parserVars, streamVars, pageVars, saveVars, classifierVars, historyVars, netVars>>

\* changePassword between its awaits: compare the current hash, validate
\* the new password, start hashing it.
ChangeCheck(c) ==
  /\ calls[c].op = "change"
  /\ calls[c].pc = "hashing"
  /\ LET user == calls[c].snapshot[FindUser(calls[c].snapshot, calls[c].username)]
     IN  calls' = [calls EXCEPT ![c] =
           IF calls[c].passwordHash # user.passwordHash
           THEN [@ EXCEPT !.pc = "done", !.error = "Current password is incorrect"]
           ELSE IF ~verifyPasswordStrength(calls[c].newPassword)
           THEN [@ EXCEPT !.pc = "done", !.error = "Password requirements not met"]
           ELSE [@ EXCEPT !.pc = "hashing new"]]
  /\ UNCHANGED <<users, session>>
  /\ UNCHANGED <<parserVars, streamVars, pageVars, saveVars, classifierVars, historyVars, netVars>>

\* changePassword after its second await: set the hash in the list it read,
\* save the list.
ChangeFinish(c) ==
  /\ calls[c].op = "change"
  /\ calls[c].pc = "hashing new"
  /\ LET userIndex == FindUser(calls[c].snapshot, calls[c].username)
     IN  users' = [calls[c].snapshot EXCEPT
                     ![userIndex].passwordHash = hashPassword(calls[c].newPassword)]
  /\ calls' = [calls EXCEPT ![c].pc = "done", ![c].success = TRUE]
  /\ UNCHANGED session
  /\ UNCHANGED <<parserVars, streamVars, pageVars, saveVars, classifierVars, historyVars, netVars>>

\* All the operations of the account system, interleaving at their awaits.
AccountOpsNext ==
  \/ \E c \in 1..MaxOps, u \in AccountNames, p \in PasswordInputs : CreateBegin(c, u, p)
  \/ \E c \in 1..MaxOps : CreateFinish(c)
  \/ \E c \in 1..MaxOps, u \in AccountNames, p \in PasswordInputs : LoginBegin(c, u, p)
  \/ \E c \in 1..MaxOps : LoginFinish(c)
  \/ Logout
  \/ \E c \in 1..MaxOps, u \in AccountNames, p \in PasswordInputs : DeleteBegin(c, u, p)
  \/ \E c \in 1..MaxOps : DeleteFinish(c)
  \/ \E c \in 1..MaxOps, p \in PasswordInputs, q \in PasswordInputs : ChangeBegin(c, p, q)
  \/ \E c \in 1..MaxOps : ChangeCheck(c)
  \/ \E c \in 1..MaxOps : ChangeFinish(c)

AccountNext ==
  \/ \E c \in 1..MaxCalls, u \in UsernameInputs, p \in PasswordInputs : CreateBegin(c, u, p)
  \/ \E c \in 1..MaxCalls : CreateFinish(c)

-----------------------------------------------------------------------------
(* withRetry and resilientFetch: one call, suspended at each awaited        *)
(* invocation of fn and at each delay                                       *)

\* An error value: its name, what it reports, the dontRetry mark and the
\* attempt that raised it.
ErrorOf(name, code, dontRetry, at) ==
  [name |-> name, code |-> code, dontRetry |-> dontRetry, at |-> at]

NoError == ErrorOf("", "", FALSE, 0)

\* A queued operation.
QueuedOperation(id, url) == [id |-> id, url |-> url, method |-> "POST"]

\* The outcomes one invocation of fn can have: for a plain fn a value or an
\* error, for the fetch of resilientFetch a response or a rejection.
FnOutcomes(kind) ==
  IF kind = "withRetry" THEN {"value", "error"}
  ELSE {"200", "404", "500", "failed", "aborted"}

\* fn of resilientFetch: the error a failed request raises.
fetchError(outcome, at) ==
  CASE outcome = "404" -> ErrorOf("Error", "HTTP 404", TRUE, at)
    [] outcome = "500" -> ErrorOf("Error", "HTTP 500", FALSE, at)
    [] outcome = "aborted" -> ErrorOf("AbortError", "aborted", FALSE, at)
    [] OTHER -> ErrorOf("TypeError", "Failed to fetch", FALSE, at)

fnError(kind, outcome, at) ==
  IF kind = "withRetry" THEN ErrorOf("Error", "fn failed", FALSE, at)
  ELSE fetchError(outcome, at)

NoRetry ==
  [kind |-> "none", pc |-> "idle", maxAttempts |-> 0, attempt |-> 0,
   fnCalls |-> 0, onRetryCalls |-> <<>>, failures |-> <<>>,
   onRetryThrowsAt |-> 0, url |-> 0, method |-> "GET", queueOffline |-> FALSE,
   lastError |-> NoError, ok |-> FALSE, value |-> 0, error |-> NoError]

\* onRetry: whether the callback throws, and what. The callback resilientFetch
\* passes throws the error it is given when that error is marked dontRetry.
onRetryThrows(r, error) ==
  IF r.kind = "resilientFetch" THEN error.dontRetry
  ELSE r.attempt = r.onRetryThrowsAt

onRetryError(r, error) ==
  IF r.kind = "resilientFetch" THEN error
  ELSE ErrorOf("Error", "onRetry failed", FALSE, r.attempt)

\* withRetry, the try block: fn is invoked for the current attempt.
withRetryInvoke(r) == [r EXCEPT !.pc = "calling", !.fnCalls = @ + 1]

\* withRetry leaves by a throw.
withRetryThrow(r, error) == [r EXCEPT !.pc = "thrown", !.error = error]

\* A catch clause that never stops retrying.
withRetryCatchAlwaysRetries(r, error) ==
  [r EXCEPT !.lastError = error, !.failures = Append(@, error),
            !.onRetryCalls = Append(@, r.attempt), !.pc = "delaying"]

\* withRetry, the catch block of one attempt.
withRetryCatch(r, error) ==
  LET caught1 == [r EXCEPT !.lastError = error, !.failures = Append(@, error)]
      notified == [caught1 EXCEPT !.onRetryCalls = Append(@, r.attempt)]
  IN  IF r.attempt < r.maxAttempts
      THEN IF onRetryThrows(r, error)
           THEN withRetryThrow(notified, onRetryError(r, error))
           ELSE [notified EXCEPT !.pc = "delaying"]
      ELSE withRetryThrow(caught1, caught1.lastError)

\* withRetry, the loop head: the next attempt, or the throw after the loop.
withRetryLoop(r) ==
  IF r.attempt + 1 <= r.maxAttempts
  THEN withRetryInvoke([r EXCEPT !.attempt = @ + 1])
  ELSE withRetryThrow(r, r.lastError)

\* resilientFetch, its catch block: the error the call rejects with.
resilientFetchCatch(r, error, isOnline) ==
  IF error.name = "AbortError"
  THEN ErrorOf("Error", "Request timed out", FALSE, error.at)
  ELSE IF ~isOnline /\ r.queueOffline /\ r.method = "POST"
       THEN ErrorOf("Error", "Connection lost", FALSE, error.at)
       ELSE error

\* Whether that catch block queues the operation.
resilientFetchRequeues(r, error, isOnline) ==
  /\ error.name # "AbortError"
  /\ ~isOnline /\ r.queueOffline /\ r.method = "POST"

queueOperation(queue, id, url) == Append(queue, QueuedOperation(id, url))

RetryIdle == retry = NoRetry

NetworkIdle ==
  /\ online = TRUE
  /\ operationQueue = <<>>
  /\ nextOpId = 1
  /\ isProcessingQueue = FALSE
  /\ passes = <<>>
  /\ fetched = {}

NetIdle == NetworkIdle /\ RetryIdle

\* The call about to be made: what is called, maxAttempts, the attempt at
\* which a plain onRetry throws (0 for never), the method and queueOffline.
RetryInit ==
  /\ \E kind \in {"withRetry", "resilientFetch"}, m \in 0..MaxAttempts,
        t \in 0..MaxAttempts, method \in {"GET", "POST"}, q \in BOOLEAN :
       /\ kind = "withRetry" => method = "GET" /\ ~q
       /\ kind = "resilientFetch" => t = 0
       /\ retry = [NoRetry EXCEPT !.kind = kind, !.pc = "start",
                     !.maxAttempts = m, !.onRetryThrowsAt = t,
                     !.method = method, !.queueOffline = q]
  /\ online \in BOOLEAN
  /\ operationQueue = <<>>
  /\ nextOpId = 1
  /\ isProcessingQueue = FALSE
  /\ passes = <<>>
  /\ fetched = {}

retryRest ==
  <<parserVars, streamVars, pageVars, saveVars, classifierVars, historyVars,
    accountVars>>

\* The call leaves withRetry by a throw: a plain call rejects, resilientFetch
\* runs its catch block first.
Settle(r) ==
  IF r.pc # "thrown"
  THEN /\ retry' = r
       /\ UNCHANGED <<operationQueue, nextOpId>>
  ELSE IF r.kind = "withRetry"
  THEN /\ retry' = [r EXCEPT !.pc = "rejected"]
       /\ UNCHANGED <<operationQueue, nextOpId>>
  ELSE /\ retry' = [r EXCEPT !.pc = "rejected",
                             !.error = resilientFetchCatch(r, r.error, online)]
       /\ IF resilientFetchRequeues(r, r.error, online)
          THEN /\ operationQueue' = queueOperation(operationQueue, nextOpId, retry.url)
               /\ nextOpId' = nextOpId + 1
          ELSE UNCHANGED <<operationQueue, nextOpId>>

\* The call starts. resilientFetch checks the connection before anything
\* else; withRetry enters its loop.
RetryBegin ==
  /\ retry.pc = "start"
  /\ IF retry.kind = "resilientFetch" /\ ~online
     THEN /\ retry' = [retry EXCEPT !.pc = "rejected",
                         !.error = ErrorOf("Error", "You are offline", FALSE, 0)]
          /\ IF retry.queueOffline /\ retry.method = "POST"
             THEN /\ operationQueue' = queueOperation(operationQueue, nextOpId, retry.url)
                  /\ nextOpId' = nextOpId + 1
             ELSE UNCHANGED <<operationQueue, nextOpId>>
     ELSE Settle(withRetryLoop(retry))
  /\ UNCHANGED <<online, isProcessingQueue, passes, fetched, retryRest>>

\* The awaited invocation of fn returns a value.
FnResolves ==
  /\ retry.pc = "calling"
  /\ \E outcome \in FnOutcomes(retry.kind) :
       /\ outcome \in {"value", "200"}
       /\ retry' = [retry EXCEPT !.pc = "resolved", !.ok = TRUE,
                                 !.value = retry.attempt]
  /\ UNCHANGED <<networkVars, retryRest>>

\* The awaited invocation of fn throws.
FnRejects ==
  /\ retry.pc = "calling"
  /\ \E outcome \in FnOutcomes(retry.kind) :
       /\ outcome \notin {"value", "200"}
       /\ Settle(withRetryCatch(retry, fnError(retry.kind, outcome, retry.attempt)))
  /\ UNCHANGED <<online, isProcessingQueue, passes, fetched, retryRest>>

\* The delay before the next attempt has passed.
DelayOver ==
  /\ retry.pc = "delaying"
  /\ Settle(withRetryLoop(retry))
  /\ UNCHANGED <<online, isProcessingQueue, passes, fetched, retryRest>>

\* The connection changes while the call is suspended.
StatusChanges ==
  /\ retry.pc \in {"calling", "delaying"}
  /\ online' = ~online
  /\ UNCHANGED <<operationQueue, nextOpId, isProcessingQueue, passes, fetched,
                 retryVars, retryRest>>

RetryNext ==
  \/ RetryBegin
  \/ FnResolves
  \/ FnRejects
  \/ DelayOver
  \/ StatusChanges

-----------------------------------------------------------------------------
(* The network manager: the queue of operations and the passes of           *)
(* processQueue, each suspended at its awaited request                      *)

\* The call processQueue makes for a queued operation.
QueuedCall(op) ==
  [NoRetry EXCEPT !.kind = "resilientFetch", !.maxAttempts = 1, !.attempt = 1,
                  !.url = op.url, !.method = op.method, !.queueOffline = TRUE]

\* A pass of processQueue: the operations it took, the one it is at, the
\* ones whose request failed, the ids queued by others while it ran, and
\* whether the queue was cleared while it ran.
NewPass(operations) ==
  [pc |-> "loop", taken |-> operations, index |-> 1, failed |-> {},
   during |-> {}, cleared |-> FALSE]

Active(p) == p.pc = "fetching"

\* A pass that ended earlier: what it took and did is no longer of interest
\* once the next pass starts.
Settled(p) == IF Active(p) THEN p ELSE [NewPass(<<>>) EXCEPT !.pc = "finished"]

ActivePasses == {k \in 1..Len(passes) : Active(passes[k])}

\* processQueue starts a pass whatever the flag says.
processQueueIgnoresFlag(isOnline, queue, processing) ==
  isOnline /\ queue # <<>>

\* processQueue, its two early returns: whether a pass starts.
processQueueProceeds(isOnline, queue, processing) ==
  /\ ~(~isOnline \/ Len(queue) = 0)
  /\ ~processing

\* What the manager holds while a pass runs.
PassState(p, queue, id, seen, processing) ==
  [pass |-> p, queue |-> queue, id |-> id, seen |-> seen,
   processing |-> processing]

\* processQueue, the catch of its loop: the operation is pushed back.
Requeue(st) ==
  LET p == st.pass
  IN  [st EXCEPT !.queue = Append(@, p.taken[p.index]),
                 !.pass.failed = @ \cup {p.index},
                 !.pass.index = @ + 1]

\* processQueue, its loop from the current operation on, up to the next
\* awaited request or to the end of the pass. resilientFetch called offline
\* queues the operation and throws without awaiting anything.
RECURSIVE processQueueLoop(_, _)
processQueueLoop(st, isOnline) ==
  LET p == st.pass
      op == p.taken[p.index]
  IN  IF p.index > Len(p.taken)
      THEN [st EXCEPT !.pass.pc = "finished", !.processing = FALSE]
      ELSE IF ~isOnline
      THEN processQueueLoop(
             Requeue([st EXCEPT !.queue = queueOperation(@, st.id, op.url),
                                !.id = @ + 1]),
             isOnline)
      ELSE [st EXCEPT !.pass.pc = "fetching", !.seen = @ \cup {op.url}]

\* The awaited request of a pass has ended with the given outcome.
processQueueResume(st, outcome, isOnline) ==
  LET p == st.pass
      op == p.taken[p.index]
      thrown1 == withRetryCatch(QueuedCall(op), fetchError(outcome, 1))
      requeues == resilientFetchRequeues(QueuedCall(op), thrown1.error, isOnline)
      copied == IF requeues
                THEN [st EXCEPT !.queue = queueOperation(@, st.id, op.url),
                                !.id = @ + 1]
                ELSE st
  IN  IF outcome = "200"
      THEN processQueueLoop([st EXCEPT !.pass.index = @ + 1], isOnline)
      ELSE processQueueLoop(Requeue(copied), isOnline)

\* The urls of the operations the manager has been given.
UrlsOf(queue) == {queue[i].url : i \in 1..Len(queue)}

IdsOf(queue) == {queue[i].id : i \in 1..Len(queue)}

QueueInit ==
  /\ online = TRUE
  /\ operationQueue = <<>>
  /\ nextOpId = 1
  /\ isProcessingQueue = FALSE
  /\ passes = <<>>
  /\ fetched = {}
  /\ retry = NoRetry

\* The offline event.
GoOffline ==
  /\ online
  /\ online' = FALSE
  /\ UNCHANGED <<operationQueue, nextOpId, isProcessingQueue, passes, fetched,
                 retryVars, retryRest>>

\* The online event when processQueue returns early.
GoOnline ==
  /\ ~online
  /\ ~processQueueProceeds(TRUE, operationQueue, isProcessingQueue)
  /\ online' = TRUE
  /\ UNCHANGED <<operationQueue, nextOpId, isProcessingQueue, passes, fetched,
                 retryVars, retryRest>>

\* The online event when processQueue starts a pass.
GoOnlineAndProcess ==
  /\ ~online
  /\ processQueueProceeds(TRUE, operationQueue, isProcessingQueue)
  /\ Len(passes) < MaxPasses
  /\ Len(operationQueue) <= MaxQueued
  /\ online' = TRUE
  /\ LET st == processQueueLoop(
                 PassState(NewPass(operationQueue), <<>>, nextOpId, fetched, TRUE),
                 TRUE)
     IN  /\ passes' = Append([k \in 1..Len(passes) |-> Settled(passes[k])], st.pass)
         /\ operationQueue' = st.queue
         /\ nextOpId' = st.id
         /\ fetched' = st.seen
         /\ isProcessingQueue' = st.processing
  /\ UNCHANGED <<retryVars, retryRest>>

\* resilientFetch is called with a POST while the manager is offline: the
\* operation is queued. Each such call has a url of its own, here the number
\* that also names the queued operation.
PostOffline ==
  /\ ~online
  /\ nextOpId <= MaxPosts
  /\ operationQueue' = queueOperation(operationQueue, nextOpId, nextOpId)
  /\ nextOpId' = nextOpId + 1
  /\ passes' = [k \in 1..Len(passes) |->
                  IF Active(passes[k])
                  THEN [passes[k] EXCEPT !.during = @ \cup {nextOpId}]
                  ELSE passes[k]]
  /\ UNCHANGED <<online, isProcessingQueue, fetched, retryVars, retryRest>>

\* clearQueue: the user discards the queued operations.
ClearQueue ==
  /\ operationQueue # <<>>
  /\ operationQueue' = <<>>
  /\ passes' = [k \in 1..Len(passes) |->
                  IF Active(passes[k])
                  THEN [passes[k] EXCEPT !.cleared = TRUE]
                  ELSE passes[k]]
  /\ UNCHANGED <<online, nextOpId, isProcessingQueue, fetched, retryVars, retryRest>>

\* The request a pass awaits ends.
RequestEnds(k, outcome) ==
  /\ k \in ActivePasses
  /\ LET st == processQueueResume(
                 PassState(passes[k], operationQueue, nextOpId, fetched,
                           isProcessingQueue),
                 outcome, online)
     IN  /\ passes' = [passes EXCEPT ![k] = st.pass]
         /\ operationQueue' = st.queue
         /\ nextOpId' = st.id
         /\ fetched' = st.seen
         /\ isProcessingQueue' = st.processing
  /\ UNCHANGED <<online, retryVars, retryRest>>

QueueNext ==
  \/ GoOffline
  \/ GoOnline
  \/ GoOnlineAndProcess
  \/ PostOffline
  \/ ClearQueue
  \/ \E k \in 1..MaxPasses, outcome \in FnOutcomes("resilientFetch") :
       RequestEnds(k, outcome)

PageIdle == PageInit

LibIdle == ClassifierIdle /\ HistoryIdle /\ AccountIdle /\ NetIdle

ParserSpecInit == ParserInit /\ StreamIdle /\ PageIdle /\ SaveIdle /\ LibIdle

ParserSpec == ParserSpecInit /\ [][ParserNext]_vars

StreamSpecInit == StreamInit /\ ParserIdle /\ PageIdle /\ SaveIdle /\ LibIdle

StreamSpec == StreamSpecInit /\ [][StreamNext]_vars

\* The stream reader fed with chunks that end at line ends.
LineStreamSpec == StreamSpecInit /\ [][LineStreamNext]_vars

PageSpecInit == PageInit /\ ParserIdle /\ StreamIdle /\ SaveIdle /\ LibIdle

PageSpec == PageSpecInit /\ [][PageNext]_vars

SaveSpecInit == SaveInit /\ ParserIdle /\ StreamIdle /\ PageIdle /\ LibIdle

SaveSpec == SaveSpecInit /\ [][SaveNext]_vars

ClassifierSpecInit ==
  /\ ClassifierInit /\ HistoryIdle /\ AccountIdle /\ NetIdle
  /\ ParserIdle /\ StreamIdle /\ PageIdle /\ SaveIdle

ClassifierSpec == ClassifierSpecInit /\ [][ClassifierNext]_vars

HistorySpecInit ==
  /\ HistoryInit /\ ClassifierIdle /\ AccountIdle /\ NetIdle
  /\ ParserIdle /\ StreamIdle /\ PageIdle /\ SaveIdle

HistorySpec == HistorySpecInit /\ [][HistoryNext]_vars

AccountSpecInit ==
  /\ AccountInit /\ ClassifierIdle /\ HistoryIdle /\ NetIdle
  /\ ParserIdle /\ StreamIdle /\ PageIdle /\ SaveIdle

AccountSpec == AccountSpecInit /\ [][AccountNext]_vars

\* The accounts under all their operations.
AccountOpsSpec == AccountSpecInit /\ [][AccountOpsNext]_vars

RetrySpecInit ==
  /\ RetryInit /\ ClassifierIdle /\ HistoryIdle /\ AccountIdle
  /\ ParserIdle /\ StreamIdle /\ PageIdle /\ SaveIdle

\* One call of withRetry or of resilientFetch.
RetrySpec == RetrySpecInit /\ [][RetryNext]_vars

QueueSpecInit ==
  /\ QueueInit /\ ClassifierIdle /\ HistoryIdle /\ AccountIdle
  /\ ParserIdle /\ StreamIdle /\ PageIdle /\ SaveIdle

\* The network manager under connection events, posts and request outcomes.
QueueSpec == QueueSpecInit /\ [][QueueNext]_vars

\* The same, where a request that is awaited ends: resilientFetch aborts it
\* after timeoutMs at the latest.
RequestsEnd ==
  WF_vars(\E k \in 1..MaxPasses, outcome \in FnOutcomes("resilientFetch") :
            RequestEnds(k, outcome))

FairQueueSpec == QueueSpec /\ RequestsEnd

-----------------------------------------------------------------------------
(* Claims about the parser and the export, checked under ParserSpec *)

Parsed == parseStage # "input"

\* What the JSON attempt found: a candidate text that parses to an object
\* with a files array.
JsonFilesFound(s) ==
  /\ JsonCandidate(s).found
  /\ JSONparse(JsonCandidate(s).text).ok
  /\ JSONparse(JsonCandidate(s).text).value.hasFiles

\* The tag written after the opening fence of a block ("" when there is none).
BlockTag(block) == ConcatAtoms(SubSeq(block, 2, OpenerNL(block, 1) - 1))

\* C1: parseMultiFileResponse returns, for every input, a result whose files
\* list has at least one element.
C1_AtLeastOneFile == Parsed => Len(parseResult.files) >= 1

\* C4: when the text holds a JSON block that parses and carries a files
\* array, together with two or more fenced blocks that are not that JSON
\* block, the result is exactly one file per element of the array, in array
\* order, and nothing taken from the fenced blocks.
C4_JsonPrecedence ==
  (/\ Parsed
   /\ JsonFilesFound(response)
   /\ Len(SelectSeq(CodeBlocks(response, 1), LAMBDA b : JSONDOC \notin Atoms(b))) >= 2)
  => /\ Len(parseResult.files) = Len(doc.files)
     /\ \A i \in 1..Len(parseResult.files) :
          /\ parseResult.files[i].id = "file-" \o ToString(i - 1)
          /\ parseResult.files[i].content = doc.files[i].content
          /\ doc.files[i].path # <<>> => parseResult.files[i].path = doc.files[i].path

\* C5: when the JSON attempt produces no result and the text has fewer than
\* two fenced blocks, the result is exactly one file, artifact.md, of
\* language markdown, whose content is the whole input.
C5_Fallback ==
  (Parsed /\ ~JsonTier(response).returned /\ Len(CodeBlocks(response, 1)) < 2)
  => /\ Len(parseResult.files) = 1
     /\ parseResult.files[1].path = <<"artifact", ".", "md">>
     /\ parseResult.files[1].language = "markdown"
     /\ parseResult.files[1].content = response

\* C6: when the JSON attempt produces no result and the text has n >= 2
\* fenced blocks, the result is exactly n files in block order: file 0 is
\* SKILL.md, file i >= 1 is src/file-<i>.<ext of its tag>, each language is
\* the block's tag (markdown for a block without a tag), and the manifest is
\* flat.
C6_FencedTier ==
  LET blocks == CodeBlocks(response, 1)
      TagOf(i) == IF BlockTag(blocks[i]) # "" THEN BlockTag(blocks[i]) ELSE "markdown"
  IN  (Parsed /\ ~JsonTier(response).returned /\ Len(blocks) >= 2)
      => /\ Len(parseResult.files) = Len(blocks)
         /\ parseResult.manifest.rootStructure = "flat"
         /\ \A i \in 1..Len(parseResult.files) :
              /\ parseResult.files[i].language = TagOf(i)
              /\ parseResult.files[i].path =
                   IF i = 1 THEN <<"SKILL", ".", "md">>
                   ELSE <<"src", "/", "file-", ToString(i - 1), ".",
                          getFileExtension(TagOf(i))>>

\* C8: a parse that yields k >= 2 files, handed to createZip, gives an
\* archive of exactly k entries, named by the files' paths and holding the
\* files' contents.
C8_ExportRoundTrip ==
  (parseStage = "exported" /\ Len(parseResult.files) >= 2)
  => /\ archive.kind = "zip"
     /\ Cardinality(archive.entries) = Len(parseResult.files)
     /\ archive.entries =
          { [name |-> parseResult.files[i].path, content |-> parseResult.files[i].content] :
              i \in 1..Len(parseResult.files) }

\* C9: the paths of the files of a parse result are pairwise distinct.
C9_PathsDistinct ==
  Parsed => \A i, j \in 1..Len(parseResult.files) :
              i # j => parseResult.files[i].path # parseResult.files[j].path

\* The elements of the files array of the JSON document the parser found.
JsonElems(s) == JSONparse(JsonCandidate(s).text).value.files

\* C13: in a result of the JSON tier, the file of an element without a
\* language has the language the classifier gives to the file's own path
\* (the synthesized file-<index>.md when the element has no path), and the
\* file of an element without a content has the empty content.
C13_JsonLanguageFromPath ==
  (Parsed /\ JsonTier(response).returned)
  => \A i \in 1..Len(parseResult.files) :
       /\ JsonElems(response)[i].language = ""
          => parseResult.files[i].language = getLanguageFromPath(parseResult.files[i].path)
       /\ JsonElems(response)[i].content = <<>>
          => parseResult.files[i].content = <<>>

\* The language tags of the classifier's table.
CanonicalTags == {Languages[e] : e \in DOMAIN Languages}

\* C14: every file of a parse result has a language of the fixed table; a
\* fence tag or a JSON language outside the table has become plaintext.
C14_LanguageCanonical ==
  Parsed => \A i \in 1..Len(parseResult.files) :
              parseResult.files[i].language \in CanonicalTags

-----------------------------------------------------------------------------
(* Claims about the stream reader, checked under StreamSpec *)

\* C2: however the text is split into chunks, the increments appended are
\* those appended when the same text arrives as one chunk.
C2_ChunkIndependent ==
  streamStage # "reading"
  => fullContent = ProcessChunk(sseText, [fullContent |-> <<>>, thrown |-> <<>>]).fullContent

\* C3: once a line carrying an error envelope has been read, consumption is
\* aborted and the generation has failed with the envelope's message.
C3_ErrorEnvelopeFails ==
  thrown # <<>> => streamStage = "failed" /\ caught = thrown[1]

\* The content values of the content envelopes of text, in order of arrival.
RECURSIVE ContentValuesFrom(_, _)
ContentValuesFrom(text, i) ==
  IF i + 3 > Len(text) THEN <<>>
  ELSE IF /\ text[i] = DATA
          /\ text[i + 1] = OPENCONTENT
          /\ text[i + 2] \in ValueAtoms
          /\ text[i + 3] = CLOSE
       THEN <<text[i + 2]>> \o ContentValuesFrom(text, i + 4)
       ELSE ContentValuesFrom(text, i + 1)

ContentValues(text) == ContentValuesFrom(text, 1)

\* C12: when a stream delivered in chunks that end at line ends is over, the
\* accumulated content is the sequence of the content values of all its
\* content envelopes, in arrival order, each appended exactly once.
C12_LineAlignedOrdering ==
  streamStage # "reading" => fullContent = ContentValues(sseText)

\* The stream "ab", "cd", [DONE] has been read to its end.
C12_Witness ==
  /\ sseText = ContentEvent("ab") \o ContentEvent("cd") \o DoneEvent
  /\ streamStage = "succeeded"
  /\ fullContent = <<"ab", "cd">>

\* The part of the stream text the reader has been handed so far.
Consumed == SubSeq(sseText, 1, Len(sseText) - Len(pending))

IsDoneLine(line) == line = <<DATA, DONE>>

\* The line "data: [DONE]" is among the lines read so far.
DoneRead ==
  \E i \in 1..Len(Split(Consumed, NL)) : IsDoneLine(Split(Consumed, NL)[i])

\* Number of content envelopes with a non-empty content on the lines of text
\* that precede its first "data: [DONE]" line.
ContentBeforeDone(text) ==
  LET lines == Split(text, NL)
      dones == {i \in 1..Len(lines) : IsDoneLine(lines[i])}
      last  == IF dones = {} THEN Len(lines) ELSE Min(dones) - 1
  IN  Cardinality({i \in 1..last :
        /\ Len(lines[i]) >= 1
        /\ lines[i][1] = DATA
        /\ ParseEnvelope(Tail(lines[i])).ok
        /\ ParseEnvelope(Tail(lines[i])).content # ""})

-----------------------------------------------------------------------------
(* Claims about the page state, checked under PageSpec *)

\* C10: every isMultiFile flag kept next to a file list is true exactly when
\* the list has more than one element: the page state, every history entry,
\* the body handleSave sends, the Artifact of filesToArtifact.
C10_FlagAgreesWithFiles ==
  /\ isMultiFile <=> Len(editorFiles) > 1
  /\ \A i \in 1..Len(history) : history[i].isMultiFile <=> Len(history[i].files) > 1
  /\ saveBody.sent => (saveBody.isMultiFile <=> Len(saveBody.files) > 1)
  /\ filesToArtifact(editorFiles, "skill").isMultiFile <=> Len(editorFiles) > 1

-----------------------------------------------------------------------------
(* Claims about POST /api/save, checked under SaveSpec *)

PathsDistinct(files) ==
  \A i, j \in 1..Len(files) : i # j => files[i].path # files[j].path

\* C7: after a successful multi-file save of a list of files with distinct
\* paths, every file of the list is on disk under the save root with exactly
\* its own content.
C7_EveryFileWritten ==
  (/\ saveResponse.status = 200
   /\ MultiFileBranch(saveReq)
   /\ PathsDistinct(saveReq.files))
  => \A i \in 1..Len(saveReq.files) :
       [path |-> PathJoin(basePath, saveReq.files[i].path),
        content |-> saveReq.files[i].content] \in disk

\* The two save roots of a request: under the working directory, under the
\* home directory.
SkillsTail(req) == <<<<".", "claude">>, <<"skills">>, extractName(req.content, req.type)>>

\* A .git entry exists in the working directory or in one of its ancestors,
\* the root included.
GitMarkerAbove == \E d \in PrefixesOf(cwd) : d \in gitDirs

\* C15: the save root is the project-local one exactly when a .git entry
\* exists in the working directory or in any of its ancestors up to and
\* including the root, and the user-global one otherwise.
C15_SaveRootDetection ==
  (saveStep # 0 /\ saveResponse.status # 400)
  => basePath = IF GitMarkerAbove THEN cwd \o SkillsTail(saveReq)
                ELSE HomeDir \o SkillsTail(saveReq)

-----------------------------------------------------------------------------
(* Claims about the classifier, checked under ClassifierSpec *)

\* The extension of a path as the classifier reads it: the text after the
\* last ".", in lower case.
ExtensionOf(path) == toLowerCase(ConcatAtoms(LastDotPart(path)))

\* C16: getLanguageFromPath returns the language of the table for every
\* extension of the table and the string plaintext for every other
\* extension, for all inputs.
C16_ClassifierTotal ==
  clStage = "done"
  => clResult = IF ExtensionOf(clPath) \in DOMAIN Languages
                THEN Languages[ExtensionOf(clPath)] ELSE "plaintext"

-----------------------------------------------------------------------------
(* Claims about the history store, checked under HistorySpec *)

Stored(id, h) == \E j \in 1..Len(h) : h[j].id = id

\* The step is a deleteFromHistory of id or a clearHistory.
RemovedExplicitly(id) ==
  \/ histOp'.op = "delete" /\ histOp'.id = id
  \/ histOp'.op = "clear"

\* C17, as stated: a saved entry stays in the history until deleteFromHistory
\* with its id or clearHistory removes it; saving further entries never
\* removes it.
C17_KeptUntilRemoved ==
  [][\A i \in 1..Len(history) :
       Stored(history[i].id, history') \/ RemovedExplicitly(history[i].id)]_vars

\* C17, amended: a saved entry stays in the history until deleteFromHistory
\* with its id or clearHistory removes it, or until it is the oldest of
\* MAX_HISTORY_ITEMS stored entries and a further entry is saved.
C17_KeptUntilRemovedOrEvicted ==
  [][\A i \in 1..Len(history) :
       \/ Stored(history[i].id, history')
       \/ RemovedExplicitly(history[i].id)
       \/ /\ histOp'.op = "save"
          /\ Len(history) = MAX_HISTORY_ITEMS
          /\ i = Len(history)]_vars

\* The store is full and a save has just pushed the oldest entry out.
C17_Witness ==
  /\ histOp.op = "save"
  /\ Len(history) = MAX_HISTORY_ITEMS
  /\ nextId = MAX_HISTORY_ITEMS + 2
  /\ ~Stored(1, history)
  /\ Stored(2, history)

\* C18: the stored history never holds more than 50 items.
C18_AtMostFifty == Len(history) <= 50

\* More than 50 entries have been saved and 50 are stored.
C18_Witness ==
  /\ nextId > 51
  /\ Len(history) = 50
  /\ histOp.removals = 0

-----------------------------------------------------------------------------
(* Claims about the accounts, checked under AccountSpec *)

\* Two createAccount calls were suspended at their awaits at the same time.
Concurrent(a, b) == a \in calls[b].during \/ b \in calls[a].during

Succeeded(c) == calls[c].pc = "done" /\ calls[c].success

\* C19: when two createAccount calls for distinct usernames were in flight
\* at the same time and both have reported success, both accounts are in the
\* user store.
C19_ConcurrentCreation ==
  \A a, b \in DOMAIN calls :
    (/\ a # b
     /\ Concurrent(a, b)
     /\ Succeeded(a) /\ Succeeded(b)
     /\ calls[a].username # calls[b].username)
    => {calls[a].username, calls[b].username} \subseteq Names(users)

NoDuplicateUsernames ==
  \A i, j \in 1..Len(users) : i # j => users[i].username # users[j].username

\* The step is a createAccount call made with a username that, trimmed,
\* belongs to a stored account.
CalledWithStoredName(c) ==
  /\ calls[c].pc = "idle"
  /\ calls'[c].pc # "idle"
  /\ calls'[c].username \in Names(users)

\* C20: a createAccount call whose trimmed username belongs to a stored
\* account returns success = false with the already-exists error and leaves
\* the user store and the session as they were; and the store never holds
\* two accounts of the same username.
C20_DuplicateRejected ==
  /\ []NoDuplicateUsernames
  /\ [][\A c \in DOMAIN calls :
          CalledWithStoredName(c)
          => /\ calls'[c].pc = "done"
             /\ ~calls'[c].success
             /\ calls'[c].error = "Username already exists"
             /\ users' = users
             /\ session' = session]_vars

\* A call was rejected as a duplicate of a stored account.
C20_Witness ==
  \E c \in DOMAIN calls :
    /\ calls[c].pc = "done"
    /\ calls[c].error = "Username already exists"
    /\ calls[c].username \in Names(users)
    /\ Len(users) >= 1

-----------------------------------------------------------------------------
(* Further claims about the parser, checked under ParserSpec *)

\* C29: in every parse result the ids of the files are pairwise distinct,
\* also when a later tier produced the result after the JSON attempt was
\* abandoned partway through its files array.
C29_IdsDistinct ==
  Parsed => \A i, j \in 1..Len(parseResult.files) :
              i # j => parseResult.files[i].id # parseResult.files[j].id

-----------------------------------------------------------------------------
(* Further claims about POST /api/save, checked under SaveSpec *)

IsPrefixOf(p, q) == Len(p) <= Len(q) /\ SubSeq(q, 1, Len(p)) = p

\* C28: every file the request has written lies inside the save root chosen
\* for the request, whatever the paths of its files are.
C28_WritesInsideRoot ==
  \A e \in disk : IsPrefixOf(basePath, e.path)

-----------------------------------------------------------------------------
(* Claims about the accounts under all operations, checked under           *)
(* AccountOpsSpec                                                          *)

\* C26: whenever a session is stored, its username names an account of the
\* user store.
C26_SessionNamesAccount ==
  session # <<>> => session \in Names(users)

\* deleteAccount(name, password) has returned success.
Deleted(name) ==
  \E c \in DOMAIN calls :
    /\ calls[c].op = "delete"
    /\ calls[c].username = name
    /\ calls[c].pc = "done"
    /\ calls[c].success

\* The step is the successful end of a createAccount(name).
CreatedNow(name) ==
  \E c \in DOMAIN calls :
    /\ calls[c].op = "create"
    /\ calls[c].username = name
    /\ calls[c].pc = "hashing"
    /\ calls'[c].pc = "done"
    /\ calls'[c].success

\* C27: an account that deleteAccount has deleted and that is absent from
\* the user store enters the store again only by a createAccount of its
\* name that succeeds.
C27_DeletedStaysDeleted ==
  [][\A name \in AccountNames :
       (Deleted(name) /\ name \notin Names(users) /\ name \in Names(users'))
       => CreatedNow(name)]_vars

-----------------------------------------------------------------------------
(* Claims about withRetry and resilientFetch, checked under RetrySpec *)

\* The attempts onRetry has to be told of after the given number of failures.
RetriesAfter(failed, maxAttempts) ==
  [i \in 1..Min({failed, maxAttempts - 1}) |-> i]

C23_ClientErrorNotRetried ==
  retry.kind = "resilientFetch" =>
    \A i \in 1..Len(retry.failures) :
      retry.failures[i].code = "HTTP 404" =>
        /\ retry.fnCalls = i
        /\ retry.pc = "rejected"
        /\ retry.error = retry.failures[i]

-----------------------------------------------------------------------------
(* Claims about the network manager, checked under QueueSpec and, for the   *)
(* claim about progress, under FairQueueSpec                                *)

\* How many entries of the queue hold the request with the given url.
EntriesFor(queue, url) ==
  Cardinality({i \in 1..Len(queue) : queue[i].url = url})

\* Pass k ends in this step.
FinishesNow(k) ==
  /\ passes'[k].pc = "finished"
  /\ k > Len(passes) \/ Active(passes[k])

\* C21: when a pass of processQueue ends (the queue not having been cleared
\* meanwhile), every operation it took whose request failed is in the queue
\* exactly once, every operation whose request succeeded is not in the queue,
\* and every operation queued by others during the pass is still in the
\* queue; also when the connection drops during the pass.
C21_RequeuedOnce ==
  [][\A k \in 1..Len(passes') :
       (FinishesNow(k) /\ ~passes'[k].cleared) =>
         /\ \A i \in 1..Len(passes'[k].taken) :
              EntriesFor(operationQueue', passes'[k].taken[i].url)
                = IF i \in passes'[k].failed THEN 1 ELSE 0
         /\ passes'[k].during \subseteq IdsOf(operationQueue')]_vars

\* C24: at most one pass of processQueue is active at any time, and
\* isProcessingQueue is false whenever no pass is active.
C24_OnePassAtATime ==
  /\ Cardinality(ActivePasses) <= 1
  /\ ActivePasses = {} => ~isProcessingQueue

\* A pass is suspended at a request, an operation was queued while it was,
\* and the online event that followed has started no second pass.
C24_Witness ==
  /\ Len(passes) = 1
  /\ Active(passes[1])
  /\ passes[1].during # {}
  /\ passes[1].during \subseteq IdsOf(operationQueue)
  /\ online
  /\ isProcessingQueue

\* The manager holds the request with this url: it is queued, or a pass that
\* is running has yet to send it.
Held(u) ==
  \/ u \in UrlsOf(operationQueue)
  \/ \E k \in ActivePasses :
       \E i \in passes[k].index..Len(passes[k].taken) : passes[k].taken[i].url = u

\* C22: an operation that is queued and has never been sent, while the
\* manager is online, is eventually sent, unless the manager goes offline
\* again or the operation is discarded; no further online event is needed.
C22_QueuedEventuallySent ==
  \A u \in 1..MaxPosts :
    (u \in UrlsOf(operationQueue) /\ online /\ u \notin fetched)
      ~> (u \in fetched \/ ~online \/ ~Held(u))

====
